---- MODULE Spec2Model ----
(***************************************************************************)
(* flat-veb: a van Emde Boas tree without internal allocation.             *)
(*                                                                         *)
(* A set over [0, 2^BITS) is either a SmallSet (one machine word of flag   *)
(* bits) or an outer VEBTree made of an `upper` set over cluster indices,  *)
(* an array `lower` of cluster sets and the cached `min` / `max`.          *)
(*                                                                         *)
(* The model keeps the code's recursion and its word arithmetic and scales *)
(* the widths down: the narrowest SmallSet has BaseBits bits instead of 4, *)
(* a width n is a SmallSet for BaseBits <= n < 2*BaseBits and otherwise a  *)
(* VEBTree whose upper has n/2 bits and whose lower has (n+1)/2 bits, as   *)
(* in sizes.rs.                                                            *)
(*                                                                         *)
(* The types of sizes.rs and the factory of dyn_capacity.rs are modelled   *)
(* at their real widths, on a target whose usize has 64 bits: there a type *)
(* is a description of its parameters, never an instance, and a usize is   *)
(* the set of the positions of its one bits.                               *)
(***************************************************************************)
EXTENDS Integers, Sequences, FiniteSets, TLC

\* Width of the narrowest SmallSet of the model (the program's is 4).
BaseBits == 1

\* Width of the widest set the model instantiates.
TopBits == 4

\* The caller of the model keeps at most this many elements in the set.
MaxSize == 3

\* The caller passes insert and remove values up to this one (and below the
\* capacity).
MaxValue == 15

\* usize::MAX, on a target whose pointers have 16 bits.
USIZE_MAX == 65535

\* A capacity the factory is asked for is a number with at most this many
\* one bits, or next to one.
MaxOnes == 1
MaxWordBits == 3

(***************************************************************************)
(* Option<usize>                                                           *)
(***************************************************************************)
None == << >>

Some(v) == << v >>

(***************************************************************************)
(* Results.  A query yields its value r; a mutator yields the value r and  *)
(* the set t it leaves.  dbg: a debug_assert!(x < Self::CAPACITY) or the   *)
(* overflow check of a shift or a subtraction failed on the way; ast: the  *)
(* debug_assert!(x != self.max) of remove failed on the way.  Both panic   *)
(* in a build with debug assertions and are compiled out otherwise.  pan:  *)
(* an expect() met None or an index left its array, which panics in every  *)
(* build.                                                                  *)
(***************************************************************************)
Q(r, dbg, pan) == [r |-> r, dbg |-> dbg, pan |-> pan]

\* ins counts the calls of insert made inside an insert, at every depth, and
\* up says whether the insert itself called self.upper.insert.
M(t, r, dbg, pan) ==
    [t |-> t, r |-> r, dbg |-> dbg, pan |-> pan, ast |-> FALSE,
     ins |-> 0, up |-> FALSE]

\* The result res of a nested insert, as its caller counts it.
Nested(res) == [res EXCEPT !.ins = @ + 1]

\* The result res of a mutator during which the assertion of remove failed,
\* if ast.
Asserted(res, ast) == [res EXCEPT !.ast = @ \/ ast]

(***************************************************************************)
(* Sizes                                                                   *)
(***************************************************************************)
CAPACITY(n) == 2 ^ n

IsSmallSet(n) == n < 2 * BaseBits

UpperBits(n) == n \div 2

LowerBits_rounds_down(n) == n \div 2

LowerBits(n) == (n + 1) \div 2

UPPER_CAPACITY(n) == CAPACITY(UpperBits(n))

(***************************************************************************)
(* Words of w bits, as numbers in 0 .. 2^w - 1                             *)
(***************************************************************************)
RECURSIVE BitAnd(_, _)
BitAnd(a, b) ==
    IF a = 0 \/ b = 0 THEN 0
    ELSE (a % 2) * (b % 2) + 2 * BitAnd(a \div 2, b \div 2)

RECURSIVE BitOr(_, _)
BitOr(a, b) ==
    IF a = 0 THEN b
    ELSE IF b = 0 THEN a
    ELSE (IF a % 2 = 1 \/ b % 2 = 1 THEN 1 ELSE 0) + 2 * BitOr(a \div 2, b \div 2)

BitNot(a, w) == (2 ^ w) - 1 - a

\* Without overflow checks a shift takes its amount modulo the width.
Shl(a, k, w) == (a * (2 ^ (k % w))) % (2 ^ w)

Shr(a, k, w) == a \div (2 ^ (k % w))

\* Without overflow checks a subtraction wraps.
WrappingSub(a, b, w) == (a - b + (2 ^ w)) % (2 ^ w)

\* With overflow checks a shift by k of a word of w bits panics, and so does
\* the subtraction a - b.
ShiftOverflows(k, w) == ~(k < w)

SubOverflows(a, b) == a < b

RECURSIVE trailing_zeros(_, _)
trailing_zeros(a, w) ==
    IF a = 0 THEN w
    ELSE IF a % 2 = 1 THEN 0
    ELSE 1 + trailing_zeros(a \div 2, w - 1)

RECURSIVE BitLength(_)
BitLength(a) == IF a = 0 THEN 0 ELSE 1 + BitLength(a \div 2)

leading_zeros(a, w) == w - BitLength(a)

(***************************************************************************)
(* SmallSet<BITS, T>: T has 2^BITS bits                                    *)
(***************************************************************************)
WordBits(n) == 2 ^ n

SmallSet_new == [bits |-> 0]

SmallSet_clear(s) == [s EXCEPT !.bits = 0]

SmallSet_is_empty(s) == s.bits = 0

SmallSet_contains(n, s, x) ==
    Q(BitAnd(Shr(s.bits, x, WordBits(n)), 1) # 0,
      ~(x < CAPACITY(n)) \/ ShiftOverflows(x, WordBits(n)), FALSE)

SmallSet_insert_returns_was(n, s, x) ==
    LET was == SmallSet_contains(n, s, x)
    IN  M([s EXCEPT !.bits = BitOr(s.bits, Shl(1, x, WordBits(n)))],
          was.r, was.dbg, FALSE)

SmallSet_insert(n, s, x) ==
    LET was == SmallSet_contains(n, s, x)
    IN  M([s EXCEPT !.bits = BitOr(s.bits, Shl(1, x, WordBits(n)))],
          ~was.r, was.dbg \/ ShiftOverflows(x, WordBits(n)), FALSE)

SmallSet_remove(n, s, x) ==
    LET was == SmallSet_contains(n, s, x)
    IN  M([s EXCEPT !.bits = BitAnd(s.bits, BitNot(Shl(1, x, WordBits(n)), WordBits(n)))],
          was.r, was.dbg \/ ShiftOverflows(x, WordBits(n)), FALSE)

SmallSet_next_excludes_x(n, s, x) ==
    LET w == WordBits(n)
        big_enough == BitAnd(s.bits, BitNot(WrappingSub(Shl(1, x + 1, w), 1, w), w))
    IN  Q(IF big_enough # 0 THEN Some(trailing_zeros(big_enough, w)) ELSE None,
          ~(x < CAPACITY(n)), FALSE)

SmallSet_next(n, s, x) ==
    LET w == WordBits(n)
        big_enough == BitAnd(s.bits, BitNot(WrappingSub(Shl(1, x, w), 1, w), w))
    IN  Q(IF big_enough # 0 THEN Some(trailing_zeros(big_enough, w)) ELSE None,
          \/ ~(x < CAPACITY(n))
          \/ ShiftOverflows(x, w) \/ SubOverflows(Shl(1, x, w), 1),
          FALSE)

SmallSet_prev_without_tail_case(n, s, x) ==
    LET w == WordBits(n)
        small_enough == BitAnd(s.bits, WrappingSub(Shl(1, x + 1, w), 1, w))
    IN  Q(IF small_enough # 0
          THEN Some(CAPACITY(n) - 1 - leading_zeros(small_enough, w))
          ELSE None,
          ~(x < CAPACITY(n)), FALSE)

SmallSet_prev(n, s, x) ==
    LET w == WordBits(n)
        small_enough ==
            IF x = CAPACITY(n) - 1 THEN s.bits
            ELSE BitAnd(s.bits, WrappingSub(Shl(1, x + 1, w), 1, w))
        overflows ==
            /\ x # CAPACITY(n) - 1
            /\ ShiftOverflows(x + 1, w) \/ SubOverflows(Shl(1, x + 1, w), 1)
    IN  Q(IF small_enough # 0
          THEN Some(CAPACITY(n) - 1 - leading_zeros(small_enough, w))
          ELSE None,
          ~(x < CAPACITY(n)) \/ overflows, FALSE)

SmallSet_first(n, s) ==
    IF s.bits # 0 THEN Some(trailing_zeros(s.bits, WordBits(n))) ELSE None

SmallSet_last_one_past(n, s) ==
    IF s.bits # 0 THEN Some(CAPACITY(n) - leading_zeros(s.bits, WordBits(n))) ELSE None

SmallSet_last(n, s) ==
    IF s.bits # 0 THEN Some(CAPACITY(n) - 1 - leading_zeros(s.bits, WordBits(n))) ELSE None

(***************************************************************************)
(* The operations of the trait, dispatched on the width n of the type      *)
(***************************************************************************)
RECURSIVE new(_)
RECURSIVE clear(_, _)
RECURSIVE contains(_, _, _)
RECURSIVE insert(_, _, _)
RECURSIVE remove(_, _, _)
RECURSIVE next(_, _, _)
RECURSIVE prev(_, _, _)

(***************************************************************************)
(* outer::VEBTree<UPPER_CAPACITY, Upper, Lower>                            *)
(***************************************************************************)
VEBTree_new(n) ==
    [upper |-> new(UpperBits(n)),
     lower |-> [i \in 0 .. UPPER_CAPACITY(n) - 1 |-> new(LowerBits(n))],
     min   |-> USIZE_MAX,
     max   |-> USIZE_MAX]

ul_keeps_high_bits(n, x) == << x \div (2 ^ LowerBits(n)), x >>

ul_shifts_by_upper(n, x) ==
    << x \div (2 ^ UpperBits(n)), BitAnd(x, CAPACITY(LowerBits(n)) - 1) >>

\* (ux, lx)
ul(n, x) ==
    << x \div (2 ^ LowerBits(n)), BitAnd(x, CAPACITY(LowerBits(n)) - 1) >>

VEBTree_clear_keeps_upper(n, t) ==
    [upper |-> t.upper,
     lower |-> [i \in DOMAIN t.lower |-> clear(LowerBits(n), t.lower[i])],
     min   |-> USIZE_MAX,
     max   |-> USIZE_MAX]

VEBTree_clear(n, t) ==
    [upper |-> clear(UpperBits(n), t.upper),
     lower |-> [i \in DOMAIN t.lower |-> clear(LowerBits(n), t.lower[i])],
     min   |-> USIZE_MAX,
     max   |-> USIZE_MAX]

VEBTree_is_empty_by_max(t) == t.max = USIZE_MAX

VEBTree_is_empty(t) == t.min = USIZE_MAX

is_empty(n, t) ==
    IF IsSmallSet(n) THEN SmallSet_is_empty(t) ELSE VEBTree_is_empty(t)

VEBTree_first(t) == IF ~VEBTree_is_empty(t) THEN Some(t.min) ELSE None

VEBTree_last(t) == IF ~VEBTree_is_empty(t) THEN Some(t.max) ELSE None

first(n, t) == IF IsSmallSet(n) THEN SmallSet_first(n, t) ELSE VEBTree_first(t)

last(n, t) == IF IsSmallSet(n) THEN SmallSet_last(n, t) ELSE VEBTree_last(t)

VEBTree_contains_skips_min(n, t, x) ==
    LET dbg0 == ~(x < CAPACITY(n))
        ux   == ul(n, x)[1]
        lx   == ul(n, x)[2]
    IN  IF x < t.min THEN Q(FALSE, dbg0, FALSE)
        ELSE IF x > t.max THEN Q(FALSE, dbg0, FALSE)
        ELSE IF x = t.max THEN Q(TRUE, dbg0, FALSE)
        ELSE IF ~(ux < UPPER_CAPACITY(n)) THEN Q(FALSE, dbg0, TRUE)
        ELSE LET c == contains(LowerBits(n), t.lower[ux], lx)
             IN  Q(c.r, dbg0 \/ c.dbg, c.pan)

VEBTree_contains(n, t, x) ==
    LET dbg0 == ~(x < CAPACITY(n))
        ux   == ul(n, x)[1]
        lx   == ul(n, x)[2]
    IN  IF x < t.min THEN Q(FALSE, dbg0, FALSE)
        ELSE IF x > t.max THEN Q(FALSE, dbg0, FALSE)
        ELSE IF x = t.min THEN Q(TRUE, dbg0, FALSE)
        ELSE IF x = t.max THEN Q(TRUE, dbg0, FALSE)
        ELSE IF ~(ux < UPPER_CAPACITY(n)) THEN Q(FALSE, dbg0, TRUE)
        ELSE LET c == contains(LowerBits(n), t.lower[ux], lx)
             IN  Q(c.r, dbg0 \/ c.dbg, c.pan)

(* insert.  The steps after the swap of x with min take the instance and x *)
(* as they are then.                                                       *)

\* self.upper and self.lower[ux] after the nested inserts up and lo.
VEBTree_insert_done(t, ux, dbg, up, lo) ==
    [M([t EXCEPT !.upper = up.t, !.lower[ux] = lo.t],
       lo.r, dbg \/ up.dbg \/ lo.dbg, up.pan \/ lo.pan)
       EXCEPT !.ins = up.ins + lo.ins, !.up = up.ins > 0]

VEBTree_insert_lower_always_marks(n, t, x, dbg) ==
    LET ux == ul(n, x)[1]
        lx == ul(n, x)[2]
    IN  IF ~(ux < UPPER_CAPACITY(n)) THEN M(t, FALSE, dbg, TRUE)
        ELSE VEBTree_insert_done(t, ux, dbg,
                 Nested(insert(UpperBits(n), t.upper, ux)),
                 Nested(insert(LowerBits(n), t.lower[ux], lx)))

\* let (ux, lx) = Self::ul(x); ... self.lower[ux].insert(lx)
VEBTree_insert_lower(n, t, x, dbg) ==
    LET ux == ul(n, x)[1]
        lx == ul(n, x)[2]
    IN  IF ~(ux < UPPER_CAPACITY(n)) THEN M(t, FALSE, dbg, TRUE)
        ELSE VEBTree_insert_done(t, ux, dbg,
                 IF is_empty(LowerBits(n), t.lower[ux])
                 THEN Nested(insert(UpperBits(n), t.upper, ux))
                 ELSE M(t.upper, FALSE, FALSE, FALSE),
                 Nested(insert(LowerBits(n), t.lower[ux], lx)))

VEBTree_insert_keeps_max(t, x) == t

\* if x > self.max { self.max = x; }
VEBTree_insert_max(t, x) == IF x > t.max THEN [t EXCEPT !.max = x] ELSE t

\* if x == self.min { return false; } and what follows
VEBTree_insert_swapped(n, t, x, dbg) ==
    IF x = t.min THEN M(t, FALSE, dbg, FALSE)
    ELSE VEBTree_insert_lower(n, VEBTree_insert_max(t, x), x, dbg)

VEBTree_insert(n, t, x) ==
    IF VEBTree_is_empty(t)
    THEN M([t EXCEPT !.min = x, !.max = x], TRUE, ~(x < CAPACITY(n)), FALSE)
    ELSE IF x < t.min
    THEN \* core::mem::swap(&mut x, &mut self.min)
         VEBTree_insert_swapped(n, [t EXCEPT !.min = x], t.min, ~(x < CAPACITY(n)))
    ELSE VEBTree_insert_swapped(n, t, x, ~(x < CAPACITY(n)))

(* next *)

\* (ux << Lower::BITS) + lx, lx the Option a nested query returned
VEBTree_join(n, ux, lx, dbg, pan) ==
    IF lx = None THEN Q(None, dbg, TRUE)
    ELSE Q(Some(ux * (2 ^ LowerBits(n)) + lx[1]), dbg, pan)

\* self.lower[ux].first(), ux the Option upper.next(ux + 1) returned
VEBTree_next_cluster(n, t, dbg, nu) ==
    IF nu.pan \/ nu.r = None THEN Q(None, dbg \/ nu.dbg, TRUE)
    ELSE IF ~(nu.r[1] < UPPER_CAPACITY(n)) THEN Q(None, dbg \/ nu.dbg, TRUE)
    ELSE VEBTree_join(n, nu.r[1], first(LowerBits(n), t.lower[nu.r[1]]),
                      dbg \/ nu.dbg, FALSE)

\* (ux << Lower::BITS) + self.lower[ux].next(lx).expect(..), and the same
\* with prev: nl is what the nested query returned.
VEBTree_same_cluster(n, ux, dbg, nl) ==
    VEBTree_join(n, ux, nl.r, dbg \/ nl.dbg, nl.pan)

VEBTree_next(n, t, x) ==
    LET dbg0 == ~(x < CAPACITY(n))
        ux   == ul(n, x)[1]
        lx   == ul(n, x)[2]
        la   == last(LowerBits(n), t.lower[ux])
    IN  IF VEBTree_is_empty(t) \/ x > t.max THEN Q(None, dbg0, FALSE)
        ELSE IF x <= t.min THEN Q(Some(t.min), dbg0, FALSE)
        ELSE IF ~(ux < UPPER_CAPACITY(n)) THEN Q(None, dbg0, TRUE)
        ELSE IF la # None /\ lx <= la[1]
        THEN VEBTree_same_cluster(n, ux, dbg0, next(LowerBits(n), t.lower[ux], lx))
        ELSE VEBTree_next_cluster(n, t, dbg0, next(UpperBits(n), t.upper, ux + 1))

(* prev *)

\* self.lower[ux].last(), ux the Option upper.prev(ux - 1) returned, or min
VEBTree_prev_cluster(n, t, dbg, pu) ==
    IF pu.pan THEN Q(None, dbg \/ pu.dbg, TRUE)
    ELSE IF pu.r = None THEN Q(Some(t.min), dbg \/ pu.dbg, FALSE)
    ELSE IF ~(pu.r[1] < UPPER_CAPACITY(n)) THEN Q(None, dbg \/ pu.dbg, TRUE)
    ELSE VEBTree_join(n, pu.r[1], last(LowerBits(n), t.lower[pu.r[1]]),
                      dbg \/ pu.dbg, FALSE)

VEBTree_prev(n, t, x) ==
    LET dbg0 == ~(x < CAPACITY(n))
        ux   == ul(n, x)[1]
        lx   == ul(n, x)[2]
        fi   == first(LowerBits(n), t.lower[ux])
    IN  IF VEBTree_is_empty(t) \/ x < t.min THEN Q(None, dbg0, FALSE)
        ELSE IF ~(ux < UPPER_CAPACITY(n)) THEN Q(None, dbg0, TRUE)
        ELSE IF fi # None /\ lx >= fi[1]
        THEN VEBTree_same_cluster(n, ux, dbg0, prev(LowerBits(n), t.lower[ux], lx))
        ELSE IF ux > 0
        THEN VEBTree_prev_cluster(n, t, dbg0, prev(UpperBits(n), t.upper, ux - 1))
        ELSE Q(Some(t.min), dbg0, FALSE)

(* remove.  The steps after the singleton case take the instance and x as  *)
(* they are then, with the assertions (dbg) and panics (pan) met so far.   *)

\* x - 1 on usize: wraps without overflow checks.
Dec(x) == IF x = 0 THEN USIZE_MAX ELSE x - 1

VEBTree_remove_set_max_keeps_max(t, dbg, pan, pv) ==
    M(t, TRUE, dbg \/ pv.dbg, pan \/ pv.pan)

\* self.max = self.prev(x - 1).expect(..), pv what prev returned
VEBTree_remove_set_max(t, dbg, pan, pv) ==
    IF pv.pan \/ pv.r = None THEN M(t, TRUE, dbg \/ pv.dbg, TRUE)
    ELSE M([t EXCEPT !.max = pv.r[1]], TRUE, dbg \/ pv.dbg, pan)

\* if x != self.min && x == self.max { .. } true
VEBTree_remove_max(n, t, x, dbg, pan) ==
    IF x # t.min /\ x = t.max
    THEN VEBTree_remove_set_max(t, dbg \/ x = 0, pan, VEBTree_prev(n, t, Dec(x)))
    ELSE M(t, TRUE, dbg, pan)

VEBTree_remove_upper_keeps_summary(n, t, x, dbg, pan, up) ==
    VEBTree_remove_max(n, t, x, dbg, pan)

\* if self.lower[ux].is_empty() { self.upper.remove(ux); }, up what it left
VEBTree_remove_upper(n, t, x, dbg, pan, up) ==
    Asserted(VEBTree_remove_max(n, [t EXCEPT !.upper = up.t], x,
                                dbg \/ up.dbg, pan \/ up.pan),
             up.ast)

\* if self.lower[ux].remove(lx) { .. } else { .. }, lo what the remove left
VEBTree_remove_found(n, t, x, ux, dbg, lo) ==
    IF lo.r
    THEN Asserted(
             VEBTree_remove_upper(n, [t EXCEPT !.lower[ux] = lo.t], x,
                 dbg \/ lo.dbg, lo.pan,
                 IF is_empty(LowerBits(n), lo.t)
                 THEN remove(UpperBits(n), t.upper, ux)
                 ELSE M(t.upper, FALSE, FALSE, FALSE)),
             lo.ast)
    ELSE \* debug_assert!(x != self.max)
         Asserted(M([t EXCEPT !.lower[ux] = lo.t], FALSE, dbg \/ lo.dbg, lo.pan),
                  lo.ast \/ ~(x # t.max))

\* let (ux, lx) = Self::ul(x); self.lower[ux].remove(lx)
VEBTree_remove_lower(n, t, x, dbg) ==
    LET ux == ul(n, x)[1]
        lx == ul(n, x)[2]
    IN  IF ~(ux < UPPER_CAPACITY(n)) THEN M(t, FALSE, dbg, TRUE)
        ELSE VEBTree_remove_found(n, t, x, ux, dbg,
                                  remove(LowerBits(n), t.lower[ux], lx))

VEBTree_remove_min_keeps_promoted(n, t, dbg, nx) ==
    IF nx.pan \/ nx.r = None THEN M(t, FALSE, dbg \/ nx.dbg, TRUE)
    ELSE M([t EXCEPT !.min = nx.r[1]], TRUE, dbg \/ nx.dbg, FALSE)

\* x = self.next(x + 1).expect(..); self.min = x, nx what next returned
VEBTree_remove_min(n, t, dbg, nx) ==
    IF nx.pan \/ nx.r = None THEN M(t, FALSE, dbg \/ nx.dbg, TRUE)
    ELSE VEBTree_remove_lower(n, [t EXCEPT !.min = nx.r[1]], nx.r[1], dbg \/ nx.dbg)

VEBTree_remove_singleton_clobbers(t, x, dbg) ==
    M([t EXCEPT !.min = USIZE_MAX, !.max = 0], x = t.min, dbg, FALSE)

\* The case min == max.
VEBTree_remove_singleton(t, x, dbg) ==
    IF x = t.min
    THEN M([t EXCEPT !.min = USIZE_MAX, !.max = 0], TRUE, dbg, FALSE)
    ELSE M(t, FALSE, dbg, FALSE)

VEBTree_remove(n, t, x) ==
    IF t.min = t.max THEN VEBTree_remove_singleton(t, x, ~(x < CAPACITY(n)))
    ELSE IF x = t.min
    THEN VEBTree_remove_min(n, t, ~(x < CAPACITY(n)), VEBTree_next(n, t, x + 1))
    ELSE VEBTree_remove_lower(n, t, x, ~(x < CAPACITY(n)))

(***************************************************************************)
(* impl VEBTree for SmallSet / for outer::VEBTree                          *)
(***************************************************************************)
new(n) == IF IsSmallSet(n) THEN SmallSet_new ELSE VEBTree_new(n)

clear(n, t) == IF IsSmallSet(n) THEN SmallSet_clear(t) ELSE VEBTree_clear(n, t)

contains(n, t, x) ==
    IF IsSmallSet(n) THEN SmallSet_contains(n, t, x) ELSE VEBTree_contains(n, t, x)

insert(n, t, x) ==
    IF IsSmallSet(n) THEN SmallSet_insert(n, t, x) ELSE VEBTree_insert(n, t, x)

remove(n, t, x) ==
    IF IsSmallSet(n) THEN SmallSet_remove(n, t, x) ELSE VEBTree_remove(n, t, x)

next(n, t, x) ==
    IF IsSmallSet(n) THEN SmallSet_next(n, t, x) ELSE VEBTree_next(n, t, x)

prev(n, t, x) ==
    IF IsSmallSet(n) THEN SmallSet_prev(n, t, x) ELSE VEBTree_prev(n, t, x)

(***************************************************************************)
(* One instance and its caller                                             *)
(*                                                                         *)
(* bits             BITS of the instance's type                            *)
(* tree             the instance                                           *)
(* reference        the set of values a reference set holds after the same *)
(*                  calls                                                  *)
(* lastCall         the last call made on the instance: the operation;     *)
(*                  was: the answer of contains(x) just before an insert   *)
(*                  or remove, and whether the instance differed from      *)
(*                  new() just before a clear; ret: what the call          *)
(*                  returned; status: whether it returned or panicked      *)
(* debug_assertions whether the build has debug assertions                 *)
(* trip             progress of the round trip insert(x), remove(x),       *)
(*                  remove(x) started on an empty set: phase 1 after the   *)
(*                  insert, 2 after the first remove, 3 after the second,  *)
(*                  0 outside of it                                        *)
(* made             the last use of the factory or of SizedVEBTree and     *)
(*                  what came of it (see the factory below)                *)
(***************************************************************************)
VARIABLES bits, tree, reference, lastCall, debug_assertions, trip, made

vars == << bits, tree, reference, lastCall, debug_assertions, trip, made >>

Range == 0 .. CAPACITY(bits) - 1

\* The values the caller passes to insert and remove.
Args == {x \in Range : x <= MaxValue}

NoTrip == [phase |-> 0, x |-> 0]

NoType == [kind |-> "none"]

NotMade == [fn |-> "none", capacity |-> {}, bits |-> 0, status |-> "none", type |-> NoType]

Init ==
    /\ bits \in BaseBits .. TopBits
    /\ tree = new(bits)
    /\ reference = {}
    /\ lastCall = [op |-> "new", was |-> FALSE, ret |-> FALSE, status |-> "ok"]
    /\ debug_assertions \in BOOLEAN
    /\ trip = NoTrip
    /\ made = NotMade

\* A panic ends the process: no call follows it, and the model keeps the
\* instance as it was before the call that panicked.
Alive == lastCall.status = "ok"

Panics(res) == res.pan \/ (debug_assertions /\ (res.dbg \/ res.ast))

Return(op, was, res) ==
    [op     |-> op,
     was    |-> was,
     ret    |-> IF Panics(res) THEN FALSE ELSE res.r,
     status |-> IF Panics(res) THEN "panic" ELSE "ok"]

Insert(x) ==
    /\ Alive
    /\ x \in reference \/ Cardinality(reference) < MaxSize
    /\ \E res \in {insert(bits, tree, x)} :
           /\ tree' = IF Panics(res) THEN tree ELSE res.t
           /\ reference' = IF Panics(res) THEN reference ELSE reference \cup {x}
           /\ lastCall' = Return("insert", contains(bits, tree, x).r, res)
           /\ trip' = IF ~Panics(res) /\ reference = {}
                      THEN [phase |-> 1, x |-> x]
                      ELSE NoTrip
    /\ UNCHANGED << bits, debug_assertions, made >>

Remove(x) ==
    /\ Alive
    /\ \E res \in {remove(bits, tree, x)} :
           /\ tree' = IF Panics(res) THEN tree ELSE res.t
           /\ reference' = IF Panics(res) THEN reference ELSE reference \ {x}
           /\ lastCall' = Return("remove", contains(bits, tree, x).r, res)
           /\ trip' = IF trip.phase \in {1, 2} /\ trip.x = x
                      THEN [phase |-> trip.phase + 1, x |-> x]
                      ELSE NoTrip
    /\ UNCHANGED << bits, debug_assertions, made >>

Clear ==
    /\ Alive
    /\ tree' = clear(bits, tree)
    /\ reference' = {}
    /\ lastCall' = [op     |-> "clear",
                    was    |-> tree # new(bits),
                    ret    |-> FALSE,
                    status |-> "ok"]
    /\ trip' = NoTrip
    /\ UNCHANGED << bits, debug_assertions, made >>

Next ==
    \/ \E x \in Args : Insert(x)
    \/ \E x \in Args : Remove(x)
    \/ Clear

Spec == Init /\ [][Next]_vars

(***************************************************************************)
(* VEBIterator                                                             *)
(***************************************************************************)
iter == [next_start |-> 0]

VEBIterator_next_stops_early(n, t, it) ==
    IF it.next_start = CAPACITY(n) - 1
    THEN [it |-> it, r |-> None, dbg |-> FALSE, pan |-> FALSE, query |-> None]
    ELSE LET value == next(n, t, it.next_start)
         IN  IF value.r = None
             THEN [it |-> it, r |-> None, dbg |-> value.dbg, pan |-> value.pan,
                   query |-> Some(it.next_start)]
             ELSE [it    |-> [it EXCEPT !.next_start = value.r[1] + 1],
                   r     |-> value.r,
                   dbg   |-> value.dbg,
                   pan   |-> value.pan,
                   query |-> Some(it.next_start)]

VEBIterator_next_always_queries(n, t, it) ==
    LET value == next(n, t, it.next_start)
    IN  IF value.r = None
        THEN [it |-> it, r |-> None, dbg |-> value.dbg, pan |-> value.pan,
              query |-> Some(it.next_start)]
        ELSE [it    |-> [it EXCEPT !.next_start = value.r[1] + 1],
              r     |-> value.r,
              dbg   |-> value.dbg,
              pan   |-> value.pan,
              query |-> Some(it.next_start)]

\* Iterator::next: r is the item, it the iterator afterwards, query the
\* cursor handed to self.tree.next, None if the tree was not asked.
VEBIterator_next(n, t, it) ==
    IF it.next_start = CAPACITY(n)
    THEN [it |-> it, r |-> None, dbg |-> FALSE, pan |-> FALSE, query |-> None]
    ELSE LET value == next(n, t, it.next_start)
         IN  IF value.r = None
             THEN [it |-> it, r |-> None, dbg |-> value.dbg, pan |-> value.pan,
                   query |-> Some(it.next_start)]
             ELSE [it    |-> [it EXCEPT !.next_start = value.r[1] + 1],
                   r     |-> value.r,
                   dbg   |-> value.dbg,
                   pan   |-> value.pan,
                   query |-> Some(it.next_start)]

\* The items an iterator yields until its first None, and whether every
\* step was free of failed assertions and panics.
RECURSIVE Drain(_, _, _, _)
Drain(n, t, it, acc) ==
    LET step == VEBIterator_next(n, t, it)
    IN  IF step.dbg \/ step.pan THEN [items |-> acc, clean |-> FALSE]
        ELSE IF step.r = None THEN [items |-> acc, clean |-> TRUE]
        ELSE Drain(n, t, step.it, Append(acc, step.r[1]))

\* What the first k calls of Iterator::next on it return, in order.
RECURSIVE Steps(_, _, _, _)
Steps(n, t, it, k) ==
    IF k = 0 THEN << >>
    ELSE LET step == VEBIterator_next(n, t, it)
         IN  << step >> \o Steps(n, t, step.it, k - 1)

(***************************************************************************)
(* usize of the factory: 64 bits, a value being the set of the positions   *)
(* of its one bits                                                         *)
(***************************************************************************)
USIZE_BITS == 64

\* 1 << k
ShlOne(k) == {k % USIZE_BITS}

\* a <= b
UsizeLeq(a, b) ==
    \/ a = b
    \/ \E i \in b \ a : \A j \in (a \ b) : j < i

(***************************************************************************)
(* sizes.rs: the type of every width.  A type is the description of its    *)
(* parameters: a SmallSet<BITS, T> with the width in bits of T, or an      *)
(* outer::VEBTree<Upper, Lower>.                                           *)
(***************************************************************************)

\* The number of T the invocation of make_veb_tree_sizes! is given, and the
\* width it starts at.
SizesTokens == 57

SizesFirst == 8

\* The widths for which make_veb_tree_sizes! {n, tokens} writes an impl: one
\* as long as 8 T are left, none once 7 are.
RECURSIVE make_veb_tree_sizes(_, _)
make_veb_tree_sizes(n, tokens) ==
    IF tokens >= 8 THEN {n} \cup make_veb_tree_sizes(n + 1, tokens - 1)
    ELSE {}

\* The widths of the impls the invocation writes.
SizesWidths == make_veb_tree_sizes(SizesFirst, SizesTokens)

\* <() as GetVEBTreeSize<n>>::Type; NoType where no impl exists.
RECURSIVE GetVEBTreeSize(_)
GetVEBTreeSize(n) ==
    IF n = 4 THEN [kind |-> "SmallSet", BITS |-> 4, T |-> 16]
    ELSE IF n = 5 THEN [kind |-> "SmallSet", BITS |-> 5, T |-> 32]
    ELSE IF n = 6 THEN [kind |-> "SmallSet", BITS |-> 6, T |-> 64]
    ELSE IF n = 7 THEN [kind |-> "SmallSet", BITS |-> 7, T |-> 128]
    ELSE IF n \in SizesWidths
    THEN [kind  |-> "VEBTree",
          Upper |-> GetVEBTreeSize(UpperBits(n)),
          Lower |-> GetVEBTreeSize(LowerBits(n))]
    ELSE NoType

SizedVEBTree(n) == GetVEBTreeSize(n)

\* A type all of whose parameters are types.
RECURSIVE WellFormed(_)
WellFormed(ty) ==
    IF ty.kind = "SmallSet" THEN TRUE
    ELSE IF ty.kind = "VEBTree" THEN WellFormed(ty.Upper) /\ WellFormed(ty.Lower)
    ELSE FALSE

\* const BITS of a well-formed type
RECURSIVE Type_BITS(_)
Type_BITS(ty) ==
    IF ty.kind = "SmallSet" THEN ty.BITS
    ELSE Type_BITS(ty.Upper) + Type_BITS(ty.Lower)

\* const CAPACITY: usize = 1 << Self::BITS
Type_CAPACITY(ty) == ShlOne(Type_BITS(ty))

\* A type the compiler accepts: its parameters exist and the constant
\* CAPACITY does not overflow.
Builds(ty) == WellFormed(ty) /\ Type_BITS(ty) < USIZE_BITS

(***************************************************************************)
(* dyn_capacity.rs: the factory.  What a call makes is a record: status    *)
(* "ok" with the type of the boxed instance, "panic", or "no_build" when   *)
(* the call names a type the compiler rejects.                             *)
(***************************************************************************)
Made(fn, capacity, b, status, ty) ==
    [fn |-> fn, capacity |-> capacity, bits |-> b, status |-> status, type |-> ty]

\* The number of T the invocation of inner! is given, and the width it
\* starts at.
InnerTokens == 49

InnerFirst == 4

\* Box<T>: zeroed memory, cleared.  The instance is empty; its type is what
\* the factory chose.
new_boxed(ty) == ty

\* inner! {n, tokens}: one test per width as long as 4 T are left, nothing
\* once 3 are; then panic!.
RECURSIVE inner_strictly_below(_, _, _)
inner_strictly_below(n, tokens, capacity) ==
    IF tokens >= 4
    THEN IF ~Builds(SizedVEBTree(n)) THEN [status |-> "no_build", type |-> NoType]
         ELSE IF UsizeLeq(capacity, Type_CAPACITY(SizedVEBTree(n)))
                 /\ capacity # Type_CAPACITY(SizedVEBTree(n))
         THEN [status |-> "ok", type |-> new_boxed(SizedVEBTree(n))]
         ELSE inner_strictly_below(n + 1, tokens - 1, capacity)
    ELSE [status |-> "panic", type |-> NoType]

RECURSIVE inner(_, _, _)
inner(n, tokens, capacity) ==
    IF tokens >= 4
    THEN IF ~Builds(SizedVEBTree(n)) THEN [status |-> "no_build", type |-> NoType]
         ELSE IF UsizeLeq(capacity, Type_CAPACITY(SizedVEBTree(n)))
         THEN [status |-> "ok", type |-> new_boxed(SizedVEBTree(n))]
         ELSE inner(n + 1, tokens - 1, capacity)
    ELSE [status |-> "panic", type |-> NoType]

new_with_capacity(capacity) == inner(InnerFirst, InnerTokens, capacity)

new_with_bits(b) ==
    IF ~(b < USIZE_BITS) THEN [status |-> "panic", type |-> NoType]
    ELSE new_with_capacity(ShlOne(b))

\* capacity() of a boxed instance
capacity_of(box) == Type_CAPACITY(box)

(***************************************************************************)
(* new_boxed and init on the storage of an instance, at the widths of the  *)
(* tree model                                                              *)
(***************************************************************************)

\* alloc_zeroed(layout).cast(): the storage of a T of width n, every byte 0.
RECURSIVE alloc_zeroed(_)
alloc_zeroed(n) ==
    IF IsSmallSet(n) THEN [bits |-> 0]
    ELSE [upper |-> alloc_zeroed(UpperBits(n)),
          lower |-> [i \in 0 .. UPPER_CAPACITY(n) - 1 |-> alloc_zeroed(LowerBits(n))],
          min   |-> 0,
          max   |-> 0]

\* let mut b = Box::<T>::from_raw(mem); b.clear(); b
new_boxed_instance(n) == clear(n, alloc_zeroed(n))

RECURSIVE init(_, _)

\* The patch pass on a SmallSet: the zeroed word is the empty set and stays.
SmallSet_init(value) == value

VEBTree_init_skips_lower(n, value) ==
    [upper |-> init(UpperBits(n), value.upper),
     lower |-> value.lower,
     min   |-> USIZE_MAX,
     max   |-> USIZE_MAX]

VEBTree_init(n, value) ==
    [upper |-> init(UpperBits(n), value.upper),
     lower |-> [i \in DOMAIN value.lower |-> init(LowerBits(n), value.lower[i])],
     min   |-> USIZE_MAX,
     max   |-> USIZE_MAX]

init(n, value) == IF IsSmallSet(n) THEN SmallSet_init(value) ELSE VEBTree_init(n, value)

(***************************************************************************)
(* The callers of the factory: each run of FactorySpec is one call, of     *)
(* new_with_capacity, of new_with_bits, of new_boxed or of init on zeroed  *)
(* storage, or a use of SizedVEBTree<n>.  made holds the call (status      *)
(* "asked") and then what it made; new_boxed and init leave the instance   *)
(* in tree, its width in bits.                                             *)
(***************************************************************************)

\* The usize values with at most k one bits.
RECURSIVE Sparse(_)
Sparse(k) ==
    IF k = 0 THEN {{}}
    ELSE Sparse(k - 1) \cup {S \cup {i} : S \in Sparse(k - 1), i \in 0 .. USIZE_BITS - 1}

\* c + 1 and c - 1, where usize has them.
UsizeSucc(c) ==
    LET z == CHOOSE i \in 0 .. USIZE_BITS - 1 : i \notin c /\ \A j \in 0 .. i - 1 : j \in c
    IN  {i \in c : i > z} \cup {z}

UsizePred(c) ==
    LET o == CHOOSE i \in c : \A j \in c : i <= j
    IN  {i \in c : i > o} \cup 0 .. o - 1

\* The capacities asked for.
Capacities ==
    Sparse(MaxOnes)
        \cup {UsizeSucc(c) : c \in Sparse(MaxOnes) \ {0 .. USIZE_BITS - 1}}
        \cup {UsizePred(c) : c \in Sparse(MaxOnes) \ {{}}}

\* The widths asked for: every usize that matters to a comparison with
\* USIZE_BITS or with the widths of sizes.rs.
Widths == 0 .. USIZE_BITS + 1

FactoryInit ==
    /\ bits = BaseBits
    /\ tree = new(bits)
    /\ reference = {}
    /\ lastCall = [op |-> "new", was |-> FALSE, ret |-> FALSE, status |-> "ok"]
    /\ debug_assertions \in BOOLEAN
    /\ trip = NoTrip
    /\ made \in {Made("new_with_capacity", c, 0, "asked", NoType) : c \in Capacities}
              \cup {Made("new_with_bits", {}, b, "asked", NoType) : b \in Widths}
              \cup {Made("SizedVEBTree", {}, n, "asked", NoType) : n \in Widths}
              \cup {Made("new_boxed", {}, n, "asked", NoType) : n \in BaseBits .. TopBits}
              \cup {Made("init", {}, n, "asked", NoType) : n \in BaseBits .. TopBits}

NewWithCapacity ==
    /\ made.status = "asked" /\ made.fn = "new_with_capacity"
    /\ \E res \in {new_with_capacity(made.capacity)} :
           made' = [made EXCEPT !.status = res.status, !.type = res.type]
    /\ UNCHANGED << bits, tree, reference, lastCall, debug_assertions, trip >>

NewWithBits ==
    /\ made.status = "asked" /\ made.fn = "new_with_bits"
    /\ \E res \in {new_with_bits(made.bits)} :
           made' = [made EXCEPT !.status = res.status, !.type = res.type]
    /\ UNCHANGED << bits, tree, reference, lastCall, debug_assertions, trip >>

\* A use of SizedVEBTree<n>, as in the test constants_are_correct.
UseSized ==
    /\ made.status = "asked" /\ made.fn = "SizedVEBTree"
    /\ made' = [made EXCEPT
                  !.status = IF Builds(SizedVEBTree(made.bits)) THEN "ok" ELSE "no_build",
                  !.type   = SizedVEBTree(made.bits)]
    /\ UNCHANGED << bits, tree, reference, lastCall, debug_assertions, trip >>

\* new_boxed::<T>() for the T of width made.bits
NewBoxed ==
    /\ made.status = "asked" /\ made.fn = "new_boxed"
    /\ bits' = made.bits
    /\ tree' = new_boxed_instance(made.bits)
    /\ made' = [made EXCEPT !.status = "ok"]
    /\ UNCHANGED << reference, lastCall, debug_assertions, trip >>

\* T::init on the zeroed storage of a T of width made.bits
InitZeroed ==
    /\ made.status = "asked" /\ made.fn = "init"
    /\ bits' = made.bits
    /\ tree' = init(made.bits, alloc_zeroed(made.bits))
    /\ made' = [made EXCEPT !.status = "ok"]
    /\ UNCHANGED << reference, lastCall, debug_assertions, trip >>

FactoryNext == NewWithCapacity \/ NewWithBits \/ UseSized \/ NewBoxed \/ InitZeroed

FactorySpec == FactoryInit /\ [][FactoryNext]_vars

(***************************************************************************)
(* SmallSet<BITS, T> on its own, for BITS in BaseBits .. MaxWordBits: the  *)
(* instance is one word of 2^BITS bits, and inserts and removes take it    *)
(* through every bit pattern.  reference follows the word; the other       *)
(* variables stay as they start.                                           *)
(***************************************************************************)
WordInit ==
    /\ bits \in BaseBits .. MaxWordBits
    /\ tree = SmallSet_new
    /\ reference = {}
    /\ lastCall = [op |-> "new", was |-> FALSE, ret |-> FALSE, status |-> "ok"]
    /\ debug_assertions = TRUE
    /\ trip = NoTrip
    /\ made = NotMade

WordInsert(x) ==
    /\ \E res \in {SmallSet_insert(bits, tree, x)} :
           /\ ~Panics(res)
           /\ tree' = res.t
           /\ reference' = reference \cup {x}
    /\ UNCHANGED << bits, lastCall, debug_assertions, trip, made >>

WordRemove(x) ==
    /\ \E res \in {SmallSet_remove(bits, tree, x)} :
           /\ ~Panics(res)
           /\ tree' = res.t
           /\ reference' = reference \ {x}
    /\ UNCHANGED << bits, lastCall, debug_assertions, trip, made >>

WordNext == \E x \in Range : WordInsert(x) \/ WordRemove(x)

WordSpec == WordInit /\ [][WordNext]_vars

(***************************************************************************)
(* The reference: a mathematical set of numbers                            *)
(***************************************************************************)
SetMin(S) == CHOOSE m \in S : \A y \in S : m <= y

SetMax(S) == CHOOSE m \in S : \A y \in S : y <= m

RefNext(S, x) ==
    LET above == {y \in S : y >= x}
    IN  IF above = {} THEN None ELSE Some(SetMin(above))

RefPrev(S, x) ==
    LET below == {y \in S : y <= x}
    IN  IF below = {} THEN None ELSE Some(SetMax(below))

RECURSIVE Ascending(_)
Ascending(S) ==
    IF S = {} THEN << >> ELSE << SetMin(S) >> \o Ascending(S \ {SetMin(S)})

\* Every node of an instance, each with the width of its type.
RECURSIVE SubNodes(_, _)
SubNodes(n, t) ==
    IF IsSmallSet(n) THEN {<< n, t >>}
    ELSE {<< n, t >>}
         \cup SubNodes(UpperBits(n), t.upper)
         \cup UNION {SubNodes(LowerBits(n), t.lower[i]) : i \in DOMAIN t.lower}

Clean(q) == ~q.dbg /\ ~q.pan

(***************************************************************************)
(* Claims                                                                  *)
(***************************************************************************)

\* C1: after any sequence of in-range insert / remove calls on a fresh
\* instance, contains(y) answers for every y in [0, capacity) what
\* membership in the reference set driven by the same calls answers (the
\* reference adds x on insert(x), drops x on remove(x) and keeps every other
\* value).
C1_ContainsMatchesReference ==
    \A y \in Range :
        LET c == contains(bits, tree, y)
        IN  Clean(c) /\ (c.r <=> y \in reference)

\* An instance with a composite upper and composite clusters holds several
\* values, one of them in a cluster, after a remove that took one out.
C1_Witness ==
    /\ bits = TopBits
    /\ lastCall.op = "remove" /\ lastCall.ret
    /\ Cardinality(reference) >= 2
    /\ tree.upper.min # USIZE_MAX

\* C2: insert(x) returns true iff contains(x) was false just before the
\* call, and remove(x) returns true iff contains(x) was true just before it.
C2_ReturnTellsPriorMembership ==
    lastCall.status = "ok" =>
        /\ lastCall.op = "insert" => (lastCall.ret <=> ~lastCall.was)
        /\ lastCall.op = "remove" => (lastCall.ret <=> lastCall.was)

\* An insert has just returned true and left the cached min in a cluster
\* that stores other elements, as an insert below min does when it swaps its
\* argument with min and pushes the old min down.
C2_Witness ==
    /\ bits = TopBits
    /\ lastCall.op = "insert" /\ lastCall.ret /\ lastCall.status = "ok"
    /\ Cardinality(reference) >= 2
    /\ tree.lower[ul(bits, tree.min)[1]].min # USIZE_MAX

\* C3: next(x) is the smallest element >= x of the set, and None exactly
\* when there is none.
C3_NextIsSuccessor ==
    \A x \in Range :
        LET q == next(bits, tree, x)
        IN  Clean(q) /\ q.r = RefNext(reference, x)

\* next answers from a later cluster than the one of its argument.
C3_Witness ==
    /\ bits = TopBits
    /\ \E x \in Range :
         /\ x > tree.min
         /\ next(bits, tree, x).r # None
         /\ ul(bits, next(bits, tree, x).r[1])[1] > ul(bits, x)[1]

C5_FirstLastAreExtremes ==
    /\ first(bits, tree) = (IF reference = {} THEN None ELSE Some(SetMin(reference)))
    /\ last(bits, tree) = (IF reference = {} THEN None ELSE Some(SetMax(reference)))

\* A remove has just returned true and several elements are left; a cluster
\* above the one of max was emptied by the removal of its last element, an
\* earlier max.
C5_Witness ==
    /\ bits = TopBits
    /\ lastCall.op = "remove" /\ lastCall.ret
    /\ Cardinality(reference) >= 2
    /\ first(bits, tree) # last(bits, tree)
    /\ \E i \in DOMAIN tree.lower :
         /\ i > ul(bits, tree.max)[1]
         /\ tree.lower[i].min = USIZE_MAX /\ tree.lower[i].max # USIZE_MAX

\* C6: at every node of the instance, is_empty() holds iff contains(x) is
\* false for every x of the node's range.
C6_EmptyIffContainsNothing ==
    \A node \in SubNodes(bits, tree) :
        is_empty(node[1], node[2])
            <=> \A x \in 0 .. CAPACITY(node[1]) - 1 : ~contains(node[1], node[2], x).r

\* A cluster and the upper set of a non-empty instance were emptied by the
\* removal of their last element.
C6_Witness ==
    /\ bits = TopBits
    /\ reference # {}
    /\ tree.upper.min = USIZE_MAX /\ tree.upper.max # USIZE_MAX
    /\ \E i \in DOMAIN tree.lower :
         tree.lower[i].min = USIZE_MAX /\ tree.lower[i].max # USIZE_MAX

\* items is next(0), then next(v + 1) after each v, up to the first None or
\* to the value capacity - 1.
IsNextChain(items) ==
    LET from(i) == IF i = 1 THEN 0 ELSE items[i - 1] + 1
    IN  /\ \A i \in 1 .. Len(items) : next(bits, tree, from(i)).r = Some(items[i])
        /\ \/ from(Len(items) + 1) = CAPACITY(bits)
           \/ next(bits, tree, from(Len(items) + 1)).r = None

\* C7: iter() yields the elements of the set in ascending order, each once,
\* and then None; what it yields is the chain next(0), next(v + 1), ...
C7_IterYieldsAscending ==
    LET d == Drain(bits, tree, iter, << >>)
    IN  /\ d.clean
        /\ d.items = Ascending(reference)
        /\ IsNextChain(d.items)

\* The iterator yields several values, the last of them capacity - 1.
C7_Witness ==
    /\ bits = TopBits
    /\ Cardinality(reference) >= MaxSize
    /\ CAPACITY(bits) - 1 \in reference
    /\ Len(Drain(bits, tree, iter, << >>).items) = Cardinality(reference)

\* C23: on an instance that is not mutated meanwhile, an iterator returns
\* Some as many times as the set has elements (at most capacity) and then
\* None; every cursor it hands to next() is below capacity; and when it
\* yields capacity - 1 its cursor becomes CAPACITY and the following call
\* returns None without asking the tree.
C23_IterTerminates ==
    LET k   == Cardinality(reference)
        run == Steps(bits, tree, iter, k + 1)
    IN  /\ k <= CAPACITY(bits)
        /\ \A i \in 1 .. k : run[i].r # None
        /\ run[k + 1].r = None
        /\ \A i \in 1 .. k + 1 :
              /\ ~run[i].dbg /\ ~run[i].pan
              /\ run[i].query # None => run[i].query[1] < CAPACITY(bits)
        /\ \A i \in 1 .. k :
              run[i].r = Some(CAPACITY(bits) - 1) =>
                  /\ run[i].it.next_start = CAPACITY(bits)
                  /\ run[i + 1].r = None
                  /\ run[i + 1].query = None

\* The set is full to the caller's bound and holds capacity - 1, so the
\* last item moved the cursor to CAPACITY and the call after it has not
\* asked the tree.
C23_Witness ==
    /\ bits = TopBits
    /\ Cardinality(reference) = MaxSize
    /\ CAPACITY(bits) - 1 \in reference
    /\ LET run == Steps(bits, tree, iter, MaxSize + 1)
       IN  /\ run[MaxSize].r = Some(CAPACITY(bits) - 1)
           /\ run[MaxSize + 1].query = None

\* The positions of the one bits of the word of the SmallSet.
Ones == {i \in Range : (tree.bits \div (2 ^ i)) % 2 = 1}

\* Some(the least of S), Some(the greatest of S), None if S is empty.
Lowest(S) == IF S = {} THEN None ELSE Some(SetMin(S))

Highest(S) == IF S = {} THEN None ELSE Some(SetMax(S))

\* C24: for every bit pattern of a word of W = 2^BITS bits and every x in
\* [0, W): next(x) is the lowest one bit at or above x (all bits count at
\* x = 0) and prev(x) the highest at or below x (all bits count at
\* x = W - 1, where no shift by W is made); first() and last() are the
\* lowest and the highest one bit, None for the zero word; and no shift or
\* subtraction overflows.
C24_WordQueries ==
    /\ reference = Ones
    /\ SmallSet_first(bits, tree) = Lowest(Ones)
    /\ SmallSet_last(bits, tree) = Highest(Ones)
    /\ SmallSet_is_empty(tree) <=> Ones = {}
    /\ \A x \in Range :
          /\ SmallSet_next(bits, tree, x) =
                 Q(Lowest({i \in Ones : i >= x}), FALSE, FALSE)
          /\ SmallSet_prev(bits, tree, x) =
                 Q(Highest({i \in Ones : i <= x}), FALSE, FALSE)
          /\ SmallSet_contains(bits, tree, x) = Q(x \in Ones, FALSE, FALSE)
    /\ SmallSet_next(bits, tree, 0).r = SmallSet_first(bits, tree)
    /\ SmallSet_prev(bits, tree, CAPACITY(bits) - 1).r = SmallSet_last(bits, tree)

\* The widest word with its top bit and its bottom bit set and a gap
\* between them: next and prev answer across the gap, and prev(W - 1) reads
\* the whole word.
C24_Witness ==
    /\ bits = MaxWordBits
    /\ {0, CAPACITY(bits) - 1} \subseteq Ones
    /\ Cardinality(Ones) = 2
    /\ SmallSet_next(bits, tree, 1).r = Some(CAPACITY(bits) - 1)
    /\ SmallSet_prev(bits, tree, CAPACITY(bits) - 2).r = Some(0)
    /\ SmallSet_prev(bits, tree, CAPACITY(bits) - 1).r = Some(CAPACITY(bits) - 1)

\* (ux, lx) is lexicographically less than (uy, ly).
LexLess(a, b) == a[1] < b[1] \/ (a[1] = b[1] /\ a[2] < b[2])

\* C25: at a composite node of the width of the instance, for every x in
\* [0, CAPACITY), ul(x) = (ux, lx) has ux < UpperCapacity and
\* lx < LowerCapacity and (ux << LowerBits) + lx = x, and for x < y ul(x) is
\* lexicographically less than ul(y).
C25_DecompositionRoundTrip ==
    ~IsSmallSet(bits) =>
        /\ \A x \in Range :
              LET ux == ul(bits, x)[1]
                  lx == ul(bits, x)[2]
              IN  /\ ux \in 0 .. UPPER_CAPACITY(bits) - 1
                  /\ lx \in 0 .. CAPACITY(LowerBits(bits)) - 1
                  /\ ux * (2 ^ LowerBits(bits)) + lx <= USIZE_MAX
                  /\ ux * (2 ^ LowerBits(bits)) + lx = x
        /\ \A x, y \in Range : x < y => LexLess(ul(bits, x), ul(bits, y))

\* An insert has split its argument with ul at a node of odd width, where
\* the upper half has one bit less than the lower: the new element is not
\* the min and sits in a cluster other than the first.
C25_Witness ==
    /\ bits % 2 = 1 /\ ~IsSmallSet(bits)
    /\ UpperBits(bits) < LowerBits(bits)
    /\ lastCall.op = "insert" /\ lastCall.status = "ok" /\ lastCall.ret
    /\ \E x \in reference :
         /\ x # tree.min
         /\ ul(bits, x)[1] > 0 /\ ul(bits, x)[2] > 0
         /\ contains(LowerBits(bits), tree.lower[ul(bits, x)[1]], ul(bits, x)[2]).r

\* C8: with debug assertions, insert(x) then remove(x) on an empty set
\* leaves it empty (the remove returns true, is_empty() holds, contains(x)
\* is false), and a second remove(x) returns false without panicking.
C8_SingletonRoundTrip ==
    debug_assertions =>
        /\ trip.phase = 2 =>
             /\ lastCall.status = "ok" /\ lastCall.ret
             /\ is_empty(bits, tree)
             /\ ~contains(bits, tree, trip.x).r
        /\ trip.phase = 3 => lastCall.status = "ok" /\ ~lastCall.ret

\* C9: an insert or a remove that returns false leaves every field of the
\* instance as it was.
C9_FalseReturnChangesNothing ==
    [][(/\ lastCall'.status = "ok"
        /\ lastCall'.op \in {"insert", "remove"}
        /\ ~lastCall'.ret) => tree' = tree]_vars

\* A remove has just returned false on a non-empty instance one of whose
\* clusters had been emptied by the removal of its last element.
C9_Witness ==
    /\ bits = TopBits
    /\ lastCall.status = "ok" /\ lastCall.op = "remove" /\ ~lastCall.ret
    /\ reference # {}
    /\ \E i \in DOMAIN tree.lower :
         tree.lower[i].min = USIZE_MAX /\ tree.lower[i].max # USIZE_MAX

\* C10: clear() leaves the instance equal, field by field, to new(); then
\* is_empty() holds, contains(x) is false for every x and another clear()
\* changes nothing.
C10_ClearEqualsNew ==
    lastCall.op = "clear" =>
        /\ tree = new(bits)
        /\ is_empty(bits, tree)
        /\ \A x \in Range : ~contains(bits, tree, x).r
        /\ clear(bits, tree) = tree

\* clear() has just run on an instance that differed from new().
C10_Witness ==
    /\ bits = TopBits
    /\ lastCall.op = "clear" /\ lastCall.was

(***************************************************************************)
(* Claims about the fields of the nodes                                    *)
(***************************************************************************)

\* The composite nodes of the instance.
Composites == {node \in SubNodes(bits, tree) : ~IsSmallSet(node[1])}

\* Whether the substructure of the composite node t of width n stores x:
\* lower[x >> LowerBits] contains x & (LowerCapacity - 1).
InLower(n, t, x) ==
    contains(LowerBits(n), t.lower[x \div CAPACITY(LowerBits(n))],
             x % CAPACITY(LowerBits(n))).r

\* C14, in every state: the cached min of a non-empty composite node is not
\* stored in the node's substructure.
C14_MinNotInLower ==
    \A node \in Composites :
        ~is_empty(node[1], node[2]) =>
            /\ node[2].min < CAPACITY(node[1])
            /\ ~InLower(node[1], node[2], node[2].min)

\* C14, in every step on a composite instance: an insert below min pushes
\* the old min into the substructure and keeps its argument out of it; a
\* remove of min takes the element it promotes out of the substructure.
C14_MinMoves ==
    (~IsSmallSet(bits) /\ lastCall'.status = "ok" /\ ~is_empty(bits, tree)
        /\ ~is_empty(bits, tree') /\ tree'.min # tree.min) =>
        /\ lastCall'.op = "insert" =>
               /\ tree'.min < tree.min
               /\ tree'.min \notin reference /\ tree'.min \in reference'
               /\ InLower(bits, tree', tree.min)
               /\ ~InLower(bits, tree', tree'.min)
        /\ lastCall'.op = "remove" =>
               /\ tree.min \notin reference'
               /\ tree'.min = SetMin(reference')
               /\ InLower(bits, tree, tree'.min)
               /\ ~InLower(bits, tree', tree'.min)

\* C14: cached-min invariant.  In every reachable state no non-empty
\* composite node, at any level, stores its cached min in its substructure;
\* insert(x) with x < min pushes the old min down and not x, and remove(min)
\* removes the promoted element from the substructure.
C14_CachedMin == [](C14_MinNotInLower) /\ [][C14_MinMoves]_vars

\* A remove has just promoted a new min out of a composite cluster that
\* still stores another element, in a tree whose upper is a composite too.
C14_Witness ==
    /\ bits = TopBits
    /\ lastCall.op = "remove" /\ lastCall.ret /\ lastCall.status = "ok"
    /\ Cardinality(reference) >= 2
    /\ tree.min % 2 = 1
    /\ ~is_empty(LowerBits(bits), tree.lower[ul(bits, tree.min)[1]])
    /\ ~is_empty(UpperBits(bits), tree.upper)

\* C15: summary invariant.  In every reachable state, at every composite
\* node of every level and for every cluster index u below UPPER_CAPACITY,
\* upper.contains(u) holds iff lower[u] is not empty.
C15_UpperSummarisesLower ==
    \A node \in Composites :
        /\ DOMAIN node[2].lower = 0 .. UPPER_CAPACITY(node[1]) - 1
        /\ \A u \in 0 .. UPPER_CAPACITY(node[1]) - 1 :
               LET c == contains(UpperBits(node[1]), node[2].upper, u)
               IN  Clean(c) /\ (c.r <=> ~is_empty(LowerBits(node[1]), node[2].lower[u]))

\* A remove has just emptied a cluster of a tree that keeps elements in
\* another one: the emptied cluster keeps max = 0 and has left the upper set.
C15_Witness ==
    /\ bits = TopBits
    /\ lastCall.op = "remove" /\ lastCall.ret /\ lastCall.status = "ok"
    /\ \E i, j \in DOMAIN tree.lower :
         /\ tree.lower[i].min = USIZE_MAX /\ tree.lower[i].max = 0
         /\ ~contains(UpperBits(bits), tree.upper, i).r
         /\ ~is_empty(LowerBits(bits), tree.lower[j])
         /\ contains(UpperBits(bits), tree.upper, j).r

\* C16: in every reachable state and for every x of the range, remove(x)
\* fails the assertion x != self.max neither at the top level nor in a
\* nested node it reaches.
C16_AssertionNeverFails ==
    \A x \in Range : ~remove(bits, tree, x).ast

\* An empty composite node with its max taken for the sentinel, as new() and
\* clear() leave it.
WithSentinelMax(n, t) ==
    IF ~IsSmallSet(n) /\ is_empty(n, t) THEN [t EXCEPT !.max = USIZE_MAX] ELSE t

\* C17: no operation on a node for which is_empty() holds depends on the
\* node's max: on every empty composite node of a reachable state, every
\* operation returns the same value, leaves the same contents and meets the
\* same assertions as on the node with max = SENTINEL, which a singleton
\* removal that stored the sentinel would have left.
C17_MaxUnreadWhileEmpty ==
    \A node \in Composites :
        is_empty(node[1], node[2]) =>
            LET n  == node[1]
                t  == node[2]
                t0 == WithSentinelMax(n, t)
            IN  \A x \in 0 .. CAPACITY(n) - 1 :
                    /\ contains(n, t, x) = contains(n, t0, x)
                    /\ next(n, t, x) = next(n, t0, x)
                    /\ prev(n, t, x) = prev(n, t0, x)
                    /\ first(n, t) = first(n, t0) /\ last(n, t) = last(n, t0)
                    /\ LET a == insert(n, t, x)
                           b == insert(n, t0, x)
                       IN  /\ a.r = b.r /\ a.dbg = b.dbg /\ a.pan = b.pan /\ a.ast = b.ast
                           /\ WithSentinelMax(n, a.t) = WithSentinelMax(n, b.t)
                    /\ LET a == remove(n, t, x)
                           b == remove(n, t0, x)
                       IN  /\ a.r = b.r /\ a.dbg = b.dbg /\ a.pan = b.pan /\ a.ast = b.ast
                           /\ WithSentinelMax(n, a.t) = WithSentinelMax(n, b.t)

\* C18: in every reachable state, every composite node for which is_empty()
\* holds has min = max = SENTINEL, as in new().
C18_EmptyIsSentinelPair ==
    \A node \in Composites :
        is_empty(node[1], node[2]) =>
            node[2].min = USIZE_MAX /\ node[2].max = USIZE_MAX

\* C19: in every reachable state and for every x of the range, no call of
\* contains, next, prev, insert or remove hands a nested call an argument
\* outside the callee's range (nor computes one by an overflowing x - 1),
\* indexes lower outside its bounds, or meets None in an expect().
C19_NestedCallsInContract ==
    \A x \in Range :
        /\ Clean(contains(bits, tree, x))
        /\ Clean(next(bits, tree, x))
        /\ Clean(prev(bits, tree, x))
        /\ Clean(insert(bits, tree, x))
        /\ Clean(remove(bits, tree, x))

\* The tree is full to the caller's bound, with min, max and an emptied
\* cluster between them: remove(min) has next(min + 1) pass the emptied
\* cluster to find the successor, and remove(max) has prev(max - 1) find the
\* next max.
C19_Witness ==
    /\ bits = TopBits
    /\ Cardinality(reference) = MaxSize
    /\ remove(bits, tree, tree.min).r /\ remove(bits, tree, tree.min).t.min > tree.min
    /\ remove(bits, tree, tree.max).r /\ remove(bits, tree, tree.max).t.max < tree.max
    /\ \E i \in DOMAIN tree.lower :
         /\ ul(bits, tree.min)[1] < i /\ i < ul(bits, tree.max)[1]
         /\ tree.lower[i].min = USIZE_MAX /\ tree.lower[i].max = 0

\* The levels of composite nodes in a tree of width n.
RECURSIVE Levels(_)
Levels(n) == IF IsSmallSet(n) THEN 0 ELSE 1 + Levels(LowerBits(n))

\* The empty node t of width n after insert(x) took the path of the empty
\* node: one flag bit of a SmallSet, min and max of a composite node.
OnlyMinMax(n, t, x) ==
    IF IsSmallSet(n) THEN [bits |-> 2 ^ x] ELSE [t EXCEPT !.min = x, !.max = x]

\* C22 for insert(x) on the composite node t of width n; y is x after the
\* swap with min, and the insert reaches the decomposition unless t is
\* empty or x is its min.
C22_At(n, t, x) ==
    LET y   == IF x < t.min THEN t.min ELSE x
        ux  == ul(n, y)[1]
        lx  == ul(n, y)[2]
        res == insert(n, t, x)
        up  == insert(UpperBits(n), t.upper, ux)
        lo  == insert(LowerBits(n), t.lower[ux], lx)
    IN  IF VEBTree_is_empty(t) \/ x = t.min THEN res.ins = 0 /\ ~res.up
        ELSE /\ res.up <=> is_empty(LowerBits(n), t.lower[ux])
             /\ res.up => /\ lo.ins = 0
                          /\ lo.r
                          /\ lo.t = OnlyMinMax(LowerBits(n), t.lower[ux], lx)
                          /\ res.ins = 2 + up.ins
             /\ ~res.up => res.ins = 1 + lo.ins
             /\ res.ins <= 2 * Levels(n)

\* C22: in every reachable state, at every composite node and for every x
\* of its range, an insert(x) that reaches the decomposition calls
\* upper.insert(ux) iff lower[ux] was empty, and then lower[ux].insert(lx)
\* only sets the min and max of that cluster (or one bit of a SmallSet) and
\* calls no insert itself; so at most one of the two nested inserts goes
\* deeper and an insert makes at most two calls of insert per level.
C22_BoundedRecursion ==
    \A node \in Composites :
        \A x \in 0 .. CAPACITY(node[1]) - 1 : C22_At(node[1], node[2], x)

\* An insert into an empty cluster of the widest tree has just gone down
\* the summary: upper.insert(ux) itself reached the decomposition, and
\* another insert would do so again.
C22_Witness ==
    /\ bits = TopBits
    /\ lastCall.op = "insert" /\ lastCall.status = "ok" /\ lastCall.ret
    /\ ~is_empty(UpperBits(UpperBits(bits)), tree.upper.upper)
    /\ \E x \in Range :
         /\ insert(bits, tree, x).up
         /\ insert(bits, tree, x).ins = 2 * Levels(bits)

\* What a node stores, read off its fields without its cached max: the
\* flag bits of a SmallSet, the min of a composite node and what its
\* clusters store.
RECURSIVE Stored(_, _)
Stored(n, t) ==
    IF IsSmallSet(n) THEN {x \in 0 .. CAPACITY(n) - 1 : (t.bits \div (2 ^ x)) % 2 = 1}
    ELSE (IF t.min = USIZE_MAX THEN {} ELSE {t.min})
         \cup UNION {{u * CAPACITY(LowerBits(n)) + l : l \in Stored(LowerBits(n), t.lower[u])}
                        : u \in DOMAIN t.lower}

\* C20: cached-max invariant.  In every reachable state every non-empty
\* composite node has min <= max; min = max iff it holds exactly one
\* element, and then its upper and all its clusters are empty; if min < max
\* its substructure stores max, and max is the largest element it holds.
C20_CachedMax ==
    /\ Stored(bits, tree) = reference
    /\ \A node \in Composites :
         ~is_empty(node[1], node[2]) =>
             LET n == node[1]
                 t == node[2]
             IN  /\ t.min <= t.max /\ t.max < CAPACITY(n)
                 /\ t.min = t.max <=> Cardinality(Stored(n, t)) = 1
                 /\ t.min = t.max =>
                        /\ is_empty(UpperBits(n), t.upper)
                        /\ \A i \in DOMAIN t.lower : is_empty(LowerBits(n), t.lower[i])
                 /\ t.min < t.max => InLower(n, t, t.max)
                 /\ t.max = SetMax(Stored(n, t))

\* A remove has just taken out the max of a tree and left several elements:
\* the new max was found by prev in an earlier cluster, a composite one that
\* holds a single element.
C20_Witness ==
    /\ bits = TopBits
    /\ lastCall.op = "remove" /\ lastCall.ret /\ lastCall.status = "ok"
    /\ Cardinality(reference) >= 2
    /\ \E i \in DOMAIN tree.lower :
         /\ i > ul(bits, tree.max)[1]
         /\ tree.lower[i].min = USIZE_MAX /\ tree.lower[i].max = 0
    /\ LET c == tree.lower[ul(bits, tree.max)[1]]
       IN  c.min = c.max /\ c.min # USIZE_MAX

(***************************************************************************)
(* Claims about the factory and the types, under FactorySpec               *)
(***************************************************************************)

\* The widths for which SizedVEBTree<n> is a type.
Resolvable == {n \in Widths : Builds(SizedVEBTree(n))}

\* c <= 2^n, for n < USIZE_BITS
AtMostPowerOfTwo(c, n) == c = {n} \/ \A i \in c : i < n

\* a + b on usize: bit i of the sum is the bits i of a and of b and the
\* carry into i, which some lower bit set in both creates and every bit
\* between, set in one of them, passes on.
UsizeAdd(a, b) ==
    LET carry(i) == \E j \in 0 .. i - 1 :
                        /\ j \in a /\ j \in b
                        /\ \A k \in j + 1 .. i - 1 : k \in a \/ k \in b
        bit(i) == ((IF i \in a THEN 1 ELSE 0) + (IF i \in b THEN 1 ELSE 0)
                      + (IF carry(i) THEN 1 ELSE 0)) % 2
    IN  {i \in 0 .. USIZE_BITS - 1 : bit(i) = 1}

\* a * b on usize: the sum of a << i over the one bits i of b
RECURSIVE UsizeMulOver(_, _)
UsizeMulOver(a, ones) ==
    IF ones = {} THEN {}
    ELSE LET i == CHOOSE i \in ones : TRUE
         IN  UsizeAdd({j + i : j \in {k \in a : k + i < USIZE_BITS}},
                      UsizeMulOver(a, ones \ {i}))

UsizeMul(a, b) == UsizeMulOver(a, b)

\* The SmallSet types a type is made of.
RECURSIVE Leaves(_)
Leaves(ty) ==
    IF ty.kind = "VEBTree" THEN Leaves(ty.Upper) \cup Leaves(ty.Lower) ELSE {ty}

\* C11: when new_with_capacity(c) returns, capacity() of what it returns is
\* 2^n for the least width n >= 4 that is a type and has 2^n >= c (so c =
\* 2^n gives exactly 2^n); new_with_bits(b) makes what new_with_capacity(2^b)
\* makes.
C11_SmallestSufficientCapacity ==
    /\ (made.fn = "new_with_capacity" /\ made.status = "ok") =>
           \E n \in Resolvable :
               /\ n >= 4
               /\ made.type = SizedVEBTree(n)
               /\ capacity_of(made.type) = {n}
               /\ AtMostPowerOfTwo(made.capacity, n)
               /\ \A m \in Resolvable : AtMostPowerOfTwo(made.capacity, m) => n <= m
               /\ (\E k \in Resolvable : made.capacity = {k}) =>
                      capacity_of(made.type) = made.capacity
    /\ (made.fn = "new_with_bits" /\ made.status # "asked" /\ made.bits < USIZE_BITS) =>
           /\ made.status = new_with_capacity({made.bits}).status
           /\ made.type = new_with_capacity({made.bits}).type
           /\ made.status = "ok" =>
                  capacity_of(made.type) = {IF made.bits < 4 THEN 4 ELSE made.bits}

\* new_with_capacity(1 << 30) has returned an instance of capacity 1 << 30.
C11_Witness ==
    /\ made.fn = "new_with_capacity" /\ made.status = "ok"
    /\ made.capacity = {30}
    /\ capacity_of(made.type) = {30}

\* A request one above a power of two has been rounded up to the next one.
C11_WitnessRoundedUp ==
    /\ made.fn = "new_with_capacity" /\ made.status = "ok"
    /\ made.capacity = {0, 30}
    /\ capacity_of(made.type) = {31}

\* C12: new_with_capacity(c) returns an instance for every c up to the
\* capacity of the widest type sizes.rs defines, and panics exactly for the
\* c above it.
C12_PanicsExactlyAboveWidestType ==
    (made.fn = "new_with_capacity" /\ made.status # "asked") =>
        LET widest == CHOOSE n \in Resolvable : \A m \in Resolvable : m <= n
        IN  /\ AtMostPowerOfTwo(made.capacity, widest) => made.status = "ok"
            /\ ~AtMostPowerOfTwo(made.capacity, widest) => made.status = "panic"

\* C21: the instance new_boxed makes (zeroed storage, then clear()) and the
\* one init makes of zeroed storage equal new() field by field at every
\* level: every SmallSet word is 0 and every composite node has min = max =
\* SENTINEL; is_empty() holds and contains, next, prev, first and last find
\* no element.
C21_BoxedEqualsNew ==
    (made.fn \in {"new_boxed", "init"} /\ made.status = "ok") =>
        /\ tree = new(bits)
        /\ \A node \in SubNodes(bits, tree) :
               IF IsSmallSet(node[1]) THEN node[2].bits = 0
               ELSE node[2].min = USIZE_MAX /\ node[2].max = USIZE_MAX
        /\ is_empty(bits, tree)
        /\ first(bits, tree) = None /\ last(bits, tree) = None
        /\ \A x \in Range :
               /\ contains(bits, tree, x) = Q(FALSE, FALSE, FALSE)
               /\ next(bits, tree, x) = Q(None, FALSE, FALSE)
               /\ prev(bits, tree, x) = Q(None, FALSE, FALSE)

\* new_boxed has made the widest instance of the model, whose upper and
\* clusters are composite nodes.
C21_Witness ==
    /\ made.fn = "new_boxed" /\ made.status = "ok"
    /\ bits = TopBits
    /\ tree # alloc_zeroed(bits)
    /\ ~IsSmallSet(LowerBits(bits)) /\ ~IsSmallSet(UpperBits(bits))

\* init has patched the zeroed storage of the widest instance.
C21_WitnessInit ==
    /\ made.fn = "init" /\ made.status = "ok"
    /\ bits = TopBits
    /\ tree # alloc_zeroed(bits)

\* C13: a width n that has a type has one with BITS = n and CAPACITY = 2^n:
\* for n in 4..7 a SmallSet over a word of 2^n bits, for n >= 8 an
\* outer::VEBTree over the types of n/2 (upper) and (n+1)/2 (lower), with
\* BITS the sum of their BITS and CAPACITY the product of their CAPACITY;
\* the halving ends in SmallSets of 4..7 bits.
C13_ResolvedTypeHasWidth ==
    (made.fn = "SizedVEBTree" /\ made.status # "asked" /\ made.type # NoType) =>
        LET n  == made.bits
            ty == made.type
        IN  /\ made.status = "ok"
            /\ Type_BITS(ty) = n
            /\ Type_CAPACITY(ty) = {n}
            /\ n \in 4 .. 7 <=> ty.kind = "SmallSet"
            /\ n >= 8 <=> ty.kind = "VEBTree"
            /\ ty.kind = "SmallSet" => ty.BITS = n /\ ty.T = 2 ^ n
            /\ ty.kind = "VEBTree" =>
                   /\ ty.Upper = SizedVEBTree(n \div 2)
                   /\ ty.Lower = SizedVEBTree(n - n \div 2)
                   /\ Type_BITS(ty.Upper) = n \div 2
                   /\ Type_BITS(ty.Lower) = n - n \div 2
                   /\ Type_BITS(ty.Upper) + Type_BITS(ty.Lower) = n
                   /\ UsizeMul(Type_CAPACITY(ty.Upper), Type_CAPACITY(ty.Lower))
                          = Type_CAPACITY(ty)
            /\ \A leaf \in Leaves(ty) :
                   leaf.kind = "SmallSet" /\ leaf.BITS \in 4 .. 7 /\ leaf.T = 2 ^ leaf.BITS

\* SizedVEBTree<57>, the widest type, has been used: an odd width whose
\* halves differ and are composite.
C13_Witness ==
    /\ made.fn = "SizedVEBTree" /\ made.status = "ok"
    /\ made.bits = 57
    /\ made.type.kind = "VEBTree"
    /\ made.type.Upper # made.type.Lower
    /\ made.type.Lower.kind = "VEBTree"

====
